---- MODULE Spec2Model ----
(***************************************************************************)
(* fdb2xml: Firebird .FDB -> flat XML.  A model of src/fdb2xml.py:         *)
(*   - get_fb_type, safe_str and xml_col as operators,                     *)
(*   - main (connect_embedded, read_all_tables, generate_xml, close) as a  *)
(*     state machine, one action per step of the script.                   *)
(* Python values are tagged records; a str is the sequence of its code     *)
(* points, a bytes object the sequence of its bytes; an optional integer   *)
(* (a nullable catalog field) is <<>> for None and <<n>> for n.            *)
(***************************************************************************)
EXTENDS Integers, Sequences, FiniteSets, TLC

VARIABLES
    pc,         \* position of main
    exitCode,   \* process exit status, -1 while running
    out,        \* the last line printed on stdout
    conn,       \* the database session: "none", "open", "closed"
    d,          \* connect_embedded: index into search_dirs
    dll,        \* connect_embedded: index into the dll name tuple
    tables,     \* read_all_tables: result of get_user_tables
    ti,         \* index of the running for-loop over tables / data
    data,       \* dict table -> rows, as the ordered sequence of its items
    col_meta,   \* generate_xml: dict table -> columns, ordered sequence of items
    schema_el,  \* the <schema> element
    data_el,    \* the <data> element: sequence of <table> elements
    file,       \* the output file: "absent", "partial", "complete"
    fnIn,       \* arguments of the function called on its own (SpecType, SpecCol)
    fnOut       \* its outcome

vars == <<pc, exitCode, out, conn, d, dll, tables, ti, data, col_meta,
          schema_el, data_el, file, fnIn, fnOut>>

mainVars == <<pc, exitCode, out, conn, d, dll, tables, ti, data, col_meta,
              schema_el, data_el, file>>

-----------------------------------------------------------------------------
(* Bounds of the model *)

MaxRows == 1        \* rows per table
MaxFieldLen == 2    \* RDB$FIELD_LENGTH / RDB$CHARACTER_LENGTH range 0..MaxFieldLen
MaxPrecision == 2   \* RDB$FIELD_PRECISION range 0..MaxPrecision
MaxScale == 2       \* RDB$FIELD_SCALE range -MaxScale..MaxScale
MaxBytes == 4       \* length of a binary cell value

-----------------------------------------------------------------------------
(* Python values *)

None == <<>>
Some(n) == <<n>>

\* x or 0
Or0(x) == IF x = None THEN 0 ELSE x[1]

\* truth value of an optional integer: None and 0 are falsy
Truthy(x) == x # None /\ x[1] # 0

\* f"{x}" of an optional integer
PyStr(x) == IF x = None THEN "None" ELSE ToString(x[1])

NoneVal == [k |-> "none"]
StrVal(s) == [k |-> "str", v |-> s]
BytesVal(b) == [k |-> "bytes", v |-> b]
IntVal(i) == [k |-> "int", v |-> i]

-----------------------------------------------------------------------------
(* Firebird native type mapping *)

\* lines 36-37: the exact-numeric type of a 7/8/16 column with subtype 1 or 2
numeric_type_unnegated(sub, prec, scale) ==
    (IF sub = 1 THEN "NUMERIC" ELSE "DECIMAL")
        \o "(" \o ToString(prec) \o "," \o ToString(scale) \o ")"

numeric_type(sub, prec, scale) ==
    (IF sub = 1 THEN "NUMERIC" ELSE "DECIMAL")
        \o "(" \o ToString(prec) \o "," \o ToString(-scale) \o ")"

\* lines 55, 58: n = char_length if char_length else field_length
char_n(char_length, field_length) ==
    IF Truthy(char_length) THEN char_length ELSE field_length

\* line 66
unknown_type_plain(field_type) == "VARCHAR(255)"

unknown_type(field_type) ==
    "VARCHAR(255) /* unknown fb type " \o ToString(field_type) \o " */"

get_fb_type(field_type, field_sub_type, field_length, field_precision, field_scale, char_length) ==
    LET sub == Or0(field_sub_type)
        prec == Or0(field_precision)
        scale == Or0(field_scale)
    IN  IF field_type \in {7, 8, 16} /\ sub \in {1, 2}
        THEN numeric_type(sub, prec, scale)
        ELSE IF field_type = 7 THEN "SMALLINT"
        ELSE IF field_type = 8 THEN "INTEGER"
        ELSE IF field_type = 16 THEN "BIGINT"
        ELSE IF field_type = 10 THEN "FLOAT"
        ELSE IF field_type = 27 THEN "DOUBLE PRECISION"
        ELSE IF field_type = 12 THEN "DATE"
        ELSE IF field_type = 13 THEN "TIME"
        ELSE IF field_type = 35 THEN "TIMESTAMP"
        ELSE IF field_type = 14
             THEN "CHAR(" \o PyStr(char_n(char_length, field_length)) \o ")"
        ELSE IF field_type \in {37, 40}
             THEN "VARCHAR(" \o PyStr(char_n(char_length, field_length)) \o ")"
        ELSE IF field_type = 261
             THEN IF sub = 0 THEN "BLOB SUB_TYPE BINARY"
                  ELSE IF sub = 1 THEN "BLOB SUB_TYPE TEXT"
                  ELSE "BLOB SUB_TYPE " \o ToString(sub)
        ELSE unknown_type(field_type)

-----------------------------------------------------------------------------
(* Database metadata *)

\* One fetched row of the get_table_columns query
CatalogRow(name, ftype, fsub, flen, fprec, fscale, null_flag, char_len) ==
    [name |-> name, ftype |-> ftype, fsub |-> fsub, flen |-> flen, fprec |-> fprec,
     fscale |-> fscale, null_flag |-> null_flag, char_len |-> char_len]

\* the loop over cur.fetchall(): one column dict per fetched row
get_table_columns(fetched) ==
    [i \in 1 .. Len(fetched) |->
        [name |-> fetched[i].name,
         fb_type |-> get_fb_type(fetched[i].ftype, fetched[i].fsub, fetched[i].flen,
                                 fetched[i].fprec, fetched[i].fscale, fetched[i].char_len),
         not_null |-> fetched[i].null_flag # None /\ fetched[i].null_flag[1] = 1]]

-----------------------------------------------------------------------------
(* Library functions the script calls: bytes.decode("utf-8"), str.rstrip(), *)
(* base64.b64encode, str(int), strftime, str(Decimal)                       *)

IsCont(b, j) == j <= Len(b) /\ b[j] \in 128..191

\* bytes.decode("utf-8"), strict: [ok |-> FALSE] is UnicodeDecodeError
RECURSIVE utf8_decode_from(_, _, _)
utf8_decode_from(b, i, acc) ==
    IF i > Len(b) THEN [ok |-> TRUE, cps |-> acc]
    ELSE LET ch == b[i] IN
         IF ch < 128 THEN utf8_decode_from(b, i + 1, Append(acc, ch))
         ELSE IF ch < 194 THEN [ok |-> FALSE, cps |-> <<>>]
         ELSE IF ch < 224 THEN
              IF IsCont(b, i + 1)
              THEN utf8_decode_from(b, i + 2,
                       Append(acc, (ch % 32) * 64 + (b[i + 1] % 64)))
              ELSE [ok |-> FALSE, cps |-> <<>>]
         ELSE IF ch < 240 THEN
              IF /\ IsCont(b, i + 1)
                 /\ IsCont(b, i + 2)
                 /\ (ch = 224 => b[i + 1] >= 160)
                 /\ (ch = 237 => b[i + 1] < 160)
              THEN utf8_decode_from(b, i + 3,
                       Append(acc, (ch % 16) * 4096 + (b[i + 1] % 64) * 64 + (b[i + 2] % 64)))
              ELSE [ok |-> FALSE, cps |-> <<>>]
         ELSE IF ch < 245 THEN
              IF /\ IsCont(b, i + 1)
                 /\ IsCont(b, i + 2)
                 /\ IsCont(b, i + 3)
                 /\ (ch = 240 => b[i + 1] >= 144)
                 /\ (ch = 244 => b[i + 1] < 144)
              THEN utf8_decode_from(b, i + 4,
                       Append(acc, (ch % 8) * 262144 + (b[i + 1] % 64) * 4096
                                       + (b[i + 2] % 64) * 64 + (b[i + 3] % 64)))
              ELSE [ok |-> FALSE, cps |-> <<>>]
         ELSE [ok |-> FALSE, cps |-> <<>>]

\* a decoder that never fails (latin-1): every byte is its own code point
utf8_decode_latin1(b) == [ok |-> TRUE, cps |-> b]

utf8_decode(b) == utf8_decode_from(b, 1, <<>>)

\* str.isspace(): the code points str.rstrip() removes
IsSpace(c) ==
    \/ c \in 9..13
    \/ c \in 28..32
    \/ c \in {133, 160, 5760, 8232, 8233, 8239, 8287, 12288}
    \/ c \in 8192..8202

\* str.rstrip()
RECURSIVE rstrip(_)
rstrip(s) ==
    IF s # <<>> /\ IsSpace(s[Len(s)]) THEN rstrip(SubSeq(s, 1, Len(s) - 1)) ELSE s

\* the base64 alphabet: A-Z a-z 0-9 + /
B64Char(i) ==
    IF i < 26 THEN 65 + i
    ELSE IF i < 52 THEN 97 + (i - 26)
    ELSE IF i < 62 THEN 48 + (i - 52)
    ELSE IF i = 62 THEN 43 ELSE 47

\* base64.b64encode(b).decode("ascii")
RECURSIVE b64encode(_)
b64encode(b) ==
    IF b = <<>> THEN <<>>
    ELSE IF Len(b) = 1 THEN
        <<B64Char(b[1] \div 4), B64Char((b[1] % 4) * 16), 61, 61>>
    ELSE IF Len(b) = 2 THEN
        <<B64Char(b[1] \div 4), B64Char((b[1] % 4) * 16 + b[2] \div 16),
          B64Char((b[2] % 16) * 4), 61>>
    ELSE
        <<B64Char(b[1] \div 4), B64Char((b[1] % 4) * 16 + b[2] \div 16),
          B64Char((b[2] % 16) * 4 + b[3] \div 64), B64Char(b[3] % 64)>>
            \o b64encode(SubSeq(b, 4, Len(b)))

\* str(n) of an integer
RECURSIVE NatDigits(_)
NatDigits(n) == IF n < 10 THEN <<48 + n>> ELSE Append(NatDigits(n \div 10), 48 + (n % 10))

IntStr(i) == IF i < 0 THEN <<45>> \o NatDigits(-i) ELSE NatDigits(i)

\* %m, %d, %H, %M, %S: two digits;  %Y: four digits
Pad2(n) == <<48 + (n \div 10), 48 + (n % 10)>>
Pad4(n) == Pad2(n \div 100) \o Pad2(n % 100)

\* str(Decimal) of a finite decimal sign * digits * 10^exp with exp <= 0 and
\* more than -6 digits left of the point (no exponent notation)
RECURSIVE Zeros(_)
Zeros(n) == IF n <= 0 THEN <<>> ELSE <<48>> \o Zeros(n - 1)

DecimalStr(sign, digits, exp) ==
    LET dotplace == Len(digits) + exp
        body == IF exp = 0 THEN digits
                ELSE IF dotplace <= 0 THEN <<48, 46>> \o Zeros(-dotplace) \o digits
                ELSE SubSeq(digits, 1, dotplace) \o <<46>>
                         \o SubSeq(digits, dotplace + 1, Len(digits))
    IN  (IF sign = 1 THEN <<45>> ELSE <<>>) \o body

-----------------------------------------------------------------------------
(* XML value formatting *)

DatetimeVal(Y, M, D, h, m, s) == [k |-> "datetime", v |-> <<Y, M, D, h, m, s>>]
DateVal(Y, M, D) == [k |-> "date", v |-> <<Y, M, D>>]
TimeVal(h, m, s) == [k |-> "time", v |-> <<h, m, s>>]
DecimalVal(sign, digits, exp) == [k |-> "decimal", v |-> <<sign, digits, exp>>]

safe_str(val) ==
    IF val.k = "none" THEN <<>>
    ELSE IF val.k = "datetime" THEN
        Pad4(val.v[1]) \o <<45>> \o Pad2(val.v[2]) \o <<45>> \o Pad2(val.v[3]) \o <<32>>
            \o Pad2(val.v[4]) \o <<58>> \o Pad2(val.v[5]) \o <<58>> \o Pad2(val.v[6])
    ELSE IF val.k = "date" THEN
        Pad4(val.v[1]) \o <<45>> \o Pad2(val.v[2]) \o <<45>> \o Pad2(val.v[3])
    ELSE IF val.k = "time" THEN
        Pad2(val.v[1]) \o <<58>> \o Pad2(val.v[2]) \o <<58>> \o Pad2(val.v[3])
    ELSE IF val.k = "decimal" THEN DecimalStr(val.v[1], val.v[2], val.v[3])
    ELSE IF val.k = "bytes" THEN
        LET dec == utf8_decode(val.v)
        IN  IF dec.ok THEN rstrip(dec.cps) ELSE b64encode(val.v)
    ELSE IF val.k = "str" THEN rstrip(val.v)
    ELSE IntStr(val.v)

-----------------------------------------------------------------------------
(* XML generation *)

\* A <col> element: its attributes and its text.  null and enc tell whether the
\* attribute is present (null="true", enc="base64"); hasText is FALSE when
\* Element.text was never assigned.
ColEl(name, fb_type, null, enc, hasText, text) ==
    [name |-> name, type |-> fb_type, null |-> null, enc |-> enc,
     hasText |-> hasText, text |-> text]

\* xml_col with "if not val" in place of "if val is None"
xml_col_falsy(row_el, name, fb_type, val) ==
    IF val.k = "none" \/ (val.k \in {"str", "bytes"} /\ val.v = <<>>)
           \/ (val.k = "int" /\ val.v = 0)
    THEN Append(row_el, ColEl(name, fb_type, TRUE, FALSE, FALSE, <<>>))
    ELSE IF val.k = "bytes"
    THEN LET dec == utf8_decode(val.v)
         IN  IF dec.ok
             THEN Append(row_el, ColEl(name, fb_type, FALSE, FALSE, TRUE, rstrip(dec.cps)))
             ELSE Append(row_el, ColEl(name, fb_type, FALSE, TRUE, TRUE, b64encode(val.v)))
    ELSE Append(row_el, ColEl(name, fb_type, FALSE, FALSE, TRUE, safe_str(val)))

\* xml_col appends one <col> to row_el
xml_col(row_el, name, fb_type, val) ==
    IF val.k = "none"
    THEN Append(row_el, ColEl(name, fb_type, TRUE, FALSE, FALSE, <<>>))
    ELSE IF val.k = "bytes"
    THEN LET dec == utf8_decode(val.v)
         IN  IF dec.ok
             THEN Append(row_el, ColEl(name, fb_type, FALSE, FALSE, TRUE, rstrip(dec.cps)))
             ELSE Append(row_el, ColEl(name, fb_type, FALSE, TRUE, TRUE, b64encode(val.v)))
    ELSE Append(row_el, ColEl(name, fb_type, FALSE, FALSE, TRUE, safe_str(val)))

-----------------------------------------------------------------------------
(* The functions on their own: the arguments are drawn in the initial state, *)
(* one action calls the function and records what it returned.               *)

Opt(S) == {None} \cup {Some(n) : n \in S}

\* RDB$FIELD_TYPE values: the twelve get_fb_type knows, and three it does not
KnownTypeCodes == {7, 8, 10, 12, 13, 14, 16, 27, 35, 37, 40, 261}
TypeCodes == KnownTypeCodes \cup {0, 9, 23}

Descriptors ==
    [ftype : TypeCodes,
     fsub : Opt(0 .. 3),
     flen : Opt(0 .. MaxFieldLen),
     fprec : Opt(0 .. MaxPrecision),
     fscale : Opt(-MaxScale .. MaxScale),
     char_len : Opt(0 .. MaxFieldLen)]

RECURSIVE SeqsUpTo(_, _)
SeqsUpTo(S, n) ==
    IF n = 0 THEN {<<>>}
    ELSE LET shorter == SeqsUpTo(S, n - 1)
         IN  shorter \cup {Append(q, x) : q \in shorter, x \in S}

\* bytes of binary cells: space, 'A', continuation bytes 80 and A0,
\* lead bytes C2, E0, ED, F0, and FF
ByteAlphabet == {32, 65, 128, 160, 194, 224, 237, 240, 255}

\* characters of text cells: tab, space, 'a', NBSP
CharAlphabet == {9, 32, 97, 160}

FnCellValues ==
    {NoneVal}
        \cup {BytesVal(b) : b \in SeqsUpTo(ByteAlphabet, MaxBytes)}
        \cup {StrVal(t) : t \in SeqsUpTo(CharAlphabet, 2)}
        \cup {IntVal(i) : i \in {-7, 0, 42}}
        \cup {DatetimeVal(2024, 2, 29, 7, 5, 9), DateVal(1999, 12, 31), TimeVal(0, 0, 0)}
        \cup {DecimalVal(0, <<49, 50, 51, 52, 48>>, -2), DecimalVal(1, <<53>>, -3),
              DecimalVal(0, <<48>>, 0)}

IdleMain ==
    /\ pc = "function"
    /\ exitCode = -1
    /\ out = "none"
    /\ conn = "none"
    /\ d = 0
    /\ dll = 0
    /\ tables = <<>>
    /\ ti = 0
    /\ data = <<>>
    /\ col_meta = <<>>
    /\ schema_el = <<>>
    /\ data_el = <<>>
    /\ file = "absent"

Pending == [done |-> FALSE]

\* fetched catalog rows for get_table_columns on its own: up to two columns
\* of an INTEGER, a VARCHAR or an unrecognised (9) field type
FnCatalogRows ==
    {CatalogRow(n, t, None, Some(4), None, None, nf, None) :
        n \in {"X", "Y"}, t \in {8, 9, 37}, nf \in {None, Some(1)}}

FnFetched ==
    {q \in SeqsUpTo(FnCatalogRows, 2) : Len(q) = 2 => q[1].name # q[2].name}

InitType ==
    /\ IdleMain
    /\ fnIn \in {[f |-> "get_fb_type", args |-> a] : a \in Descriptors}
                  \cup {[f |-> "get_table_columns", fetched |-> q] : q \in FnFetched}
    /\ fnOut = Pending

CallGetTableColumns ==
    /\ fnIn.f = "get_table_columns"
    /\ fnOut = Pending
    /\ fnOut' = [done |-> TRUE, value |-> get_table_columns(fnIn.fetched)]
    /\ UNCHANGED <<fnIn, mainVars>>

CallGetFbType ==
    /\ fnIn.f = "get_fb_type"
    /\ fnOut = Pending
    /\ fnOut' = [done |-> TRUE,
                 value |-> get_fb_type(fnIn.args.ftype, fnIn.args.fsub, fnIn.args.flen,
                                       fnIn.args.fprec, fnIn.args.fscale,
                                       fnIn.args.char_len)]
    /\ UNCHANGED <<fnIn, mainVars>>

NextType == CallGetFbType \/ CallGetTableColumns

SpecType == InitType /\ [][NextType]_vars

InitCol ==
    /\ IdleMain
    /\ fnIn \in {[f |-> g, val |-> v] : g \in {"xml_col", "safe_str"}, v \in FnCellValues}
    /\ fnOut = Pending

CallXmlCol ==
    /\ fnIn.f = "xml_col"
    /\ fnOut = Pending
    /\ fnOut' = [done |-> TRUE, row_el |-> xml_col(<<>>, "C", "T", fnIn.val)]
    /\ UNCHANGED <<fnIn, mainVars>>

CallSafeStr ==
    /\ fnIn.f = "safe_str"
    /\ fnOut = Pending
    /\ fnOut' = [done |-> TRUE, text |-> safe_str(fnIn.val)]
    /\ UNCHANGED <<fnIn, mainVars>>

NextCol == CallXmlCol \/ CallSafeStr

SpecCol == InitCol /\ [][NextCol]_vars

-----------------------------------------------------------------------------
(* Properties of get_fb_type *)

TypeCallDone == fnOut.done /\ fnIn.f = "get_fb_type"

PlainIntegerType(ftype) ==
    IF ftype = 7 THEN "SMALLINT" ELSE IF ftype = 8 THEN "INTEGER" ELSE "BIGINT"

\* C5: for type codes 7, 8, 16 with subtype 1 (2) the result is NUMERIC(p,s)
\* (DECIMAL(p,s)), p the precision or 0, s the negated scale or 0; with any
\* other subtype the result is SMALLINT / INTEGER / BIGINT.
C5_NumericDecimal ==
    TypeCallDone /\ fnIn.args.ftype \in {7, 8, 16} =>
        LET a == fnIn.args
            p == IF a.fprec = None THEN 0 ELSE a.fprec[1]
            s == IF a.fscale = None THEN 0 ELSE 0 - a.fscale[1]
            ps == "(" \o ToString(p) \o "," \o ToString(s) \o ")"
        IN  /\ a.fsub = Some(1) => fnOut.value = "NUMERIC" \o ps
            /\ a.fsub = Some(2) => fnOut.value = "DECIMAL" \o ps
            /\ a.fsub \notin {Some(1), Some(2)} => fnOut.value = PlainIntegerType(a.ftype)

C5_Witness ==
    /\ TypeCallDone
    /\ fnIn.args.ftype = 16
    /\ fnIn.args.fsub = Some(2)
    /\ fnIn.args.fprec = Some(2)
    /\ fnIn.args.fscale = Some(-2)
    /\ fnOut.value = "DECIMAL(2,2)"

\* C6: for a character type (14, 37, 40) with a non-negative integer field
\* length, n in CHAR(n) / VARCHAR(n) is char_length whenever one is provided
\* (0 included), and the field length only when char_length is absent.
C6_CharLengthPrecedence ==
    TypeCallDone /\ fnIn.args.ftype \in {14, 37, 40} /\ fnIn.args.flen # None =>
        LET a == fnIn.args
            n == IF a.char_len # None THEN a.char_len[1] ELSE a.flen[1]
        IN  fnOut.value = (IF a.ftype = 14 THEN "CHAR(" ELSE "VARCHAR(")
                              \o ToString(n) \o ")"

\* C7: get_fb_type returns for every descriptor; a type code outside the
\* twelve known ones gives the VARCHAR(255) fallback with the code embedded,
\* and get_table_columns still yields one column per fetched catalog row.
C7_UnknownTypeFallback ==
    /\ TypeCallDone /\ fnIn.args.ftype \notin {7, 8, 10, 12, 13, 14, 16, 27, 35, 37, 40, 261} =>
           fnOut.value = "VARCHAR(255) /* unknown fb type "
                             \o ToString(fnIn.args.ftype) \o " */"
    /\ fnOut.done /\ fnIn.f = "get_table_columns" =>
           /\ Len(fnOut.value) = Len(fnIn.fetched)
           /\ \A i \in 1 .. Len(fnIn.fetched) :
                  /\ fnOut.value[i].name = fnIn.fetched[i].name
                  /\ fnIn.fetched[i].ftype = 9 =>
                         fnOut.value[i].fb_type = "VARCHAR(255) /* unknown fb type 9 */"

C7_Witness ==
    /\ fnOut.done
    /\ fnIn.f = "get_table_columns"
    /\ Len(fnIn.fetched) = 2
    /\ fnIn.fetched[1].ftype = 9
    /\ fnOut.value[1].fb_type = "VARCHAR(255) /* unknown fb type 9 */"
    /\ fnOut.value[2].fb_type = "INTEGER"

-----------------------------------------------------------------------------
(* Properties of xml_col *)

\* Well-formed UTF-8 byte sequences (Unicode standard, table 3-7)
WellFormedChar(q) ==
    LET tail == \A j \in 2 .. Len(q) : q[j] \in 128 .. 191
    IN  \/ Len(q) = 1 /\ q[1] \in 0 .. 127
        \/ Len(q) = 2 /\ q[1] \in 194 .. 223 /\ tail
        \/ Len(q) = 3 /\ q[1] = 224 /\ q[2] \in 160 .. 191 /\ tail
        \/ Len(q) = 3 /\ q[1] \in (225 .. 236) \cup {238, 239} /\ tail
        \/ Len(q) = 3 /\ q[1] = 237 /\ q[2] \in 128 .. 159 /\ tail
        \/ Len(q) = 4 /\ q[1] = 240 /\ q[2] \in 144 .. 191 /\ tail
        \/ Len(q) = 4 /\ q[1] \in 241 .. 243 /\ tail
        \/ Len(q) = 4 /\ q[1] = 244 /\ q[2] \in 128 .. 143 /\ tail

RECURSIVE WellFormedUTF8(_)
WellFormedUTF8(b) ==
    \/ b = <<>>
    \/ \E n \in 1 .. 4 :
           /\ n <= Len(b)
           /\ WellFormedChar(SubSeq(b, 1, n))
           /\ WellFormedUTF8(SubSeq(b, n + 1, Len(b)))

\* UTF-8 encoding of one code point, of a string
EncodeChar(c) ==
    IF c < 128 THEN <<c>>
    ELSE IF c < 2048 THEN <<192 + (c \div 64), 128 + (c % 64)>>
    ELSE IF c < 65536
         THEN <<224 + (c \div 4096), 128 + ((c \div 64) % 64), 128 + (c % 64)>>
    ELSE <<240 + (c \div 262144), 128 + ((c \div 4096) % 64),
           128 + ((c \div 64) % 64), 128 + (c % 64)>>

RECURSIVE EncodeStr(_)
EncodeStr(t) == IF t = <<>> THEN <<>> ELSE EncodeChar(t[1]) \o EncodeStr(Tail(t))

IsPrefix(q, b) == Len(q) <= Len(b) /\ SubSeq(b, 1, Len(q)) = q

WhitespaceChars ==
    (9 .. 13) \cup (28 .. 32) \cup {133, 160, 5760, 8232, 8233, 8239, 8287, 12288}
        \cup (8192 .. 8202)

\* b is the encoding of whitespace characters only
RECURSIVE OnlyWhitespaceBytes(_)
OnlyWhitespaceBytes(b) ==
    \/ b = <<>>
    \/ \E c \in WhitespaceChars :
           /\ IsPrefix(EncodeChar(c), b)
           /\ OnlyWhitespaceBytes(SubSeq(b, Len(EncodeChar(c)) + 1, Len(b)))

\* base64 decoding of a padded base64 text
B64Value(c) ==
    IF c \in 65 .. 90 THEN c - 65
    ELSE IF c \in 97 .. 122 THEN c - 71
    ELSE IF c \in 48 .. 57 THEN c + 4
    ELSE IF c = 43 THEN 62 ELSE 63

IsB64Char(c) == c \in (65 .. 90) \cup (97 .. 122) \cup (48 .. 57) \cup {43, 47}

RECURSIVE B64Decode(_)
B64Decode(t) ==
    IF Len(t) < 4 THEN <<>>
    ELSE LET v1 == B64Value(t[1])
             v2 == B64Value(t[2])
             v3 == B64Value(t[3])
             v4 == B64Value(t[4])
         IN  IF t[3] = 61 THEN <<v1 * 4 + v2 \div 16>>
             ELSE IF t[4] = 61 THEN <<v1 * 4 + v2 \div 16, (v2 % 16) * 16 + v3 \div 4>>
             ELSE <<v1 * 4 + v2 \div 16, (v2 % 16) * 16 + v3 \div 4, (v3 % 4) * 64 + v4>>
                      \o B64Decode(SubSeq(t, 5, Len(t)))

IsB64Text(t) ==
    /\ Len(t) % 4 = 0
    /\ \A i \in 1 .. Len(t) : IsB64Char(t[i]) \/ (t[i] = 61 /\ i >= Len(t) - 1)

ColCallDone == fnOut.done /\ fnIn.f = "xml_col"

\* C8: a binary cell gets enc="base64" and base64 text exactly when its bytes
\* are not valid UTF-8; valid UTF-8 gives no enc and the decoded text without
\* its trailing whitespace (leading and internal whitespace kept); no other
\* kind of value gets enc; every call returns one col element.
C8_Base64IffInvalidUtf8 ==
    ColCallDone =>
        LET v == fnIn.val
            e == fnOut.row_el[1]
        IN  /\ Len(fnOut.row_el) = 1
            /\ v.k # "bytes" => ~e.enc
            /\ v.k = "bytes" =>
                   /\ e.enc <=> ~WellFormedUTF8(v.v)
                   /\ e.hasText /\ ~e.null
                   /\ e.enc => IsB64Text(e.text) /\ B64Decode(e.text) = v.v
                   /\ ~e.enc =>
                          /\ IsPrefix(EncodeStr(e.text), v.v)
                          /\ e.text # <<>> => e.text[Len(e.text)] \notin WhitespaceChars
                          /\ OnlyWhitespaceBytes(
                                 SubSeq(v.v, Len(EncodeStr(e.text)) + 1, Len(v.v)))

\* " A \xc2\xa0": leading space kept, trailing space and NBSP removed
C8_WitnessText ==
    /\ ColCallDone
    /\ fnIn.val = BytesVal(<<32, 65, 194, 160>>)
    /\ ~fnOut.row_el[1].enc
    /\ fnOut.row_el[1].text = <<32, 65>>

-----------------------------------------------------------------------------
(* Python dicts keep insertion order: a dict is the sequence of its items *)

Item(k, v) == [key |-> k, val |-> v]

Keys(dct) == [i \in 1 .. Len(dct) |-> dct[i].key]

HasKey(dct, k) == \E i \in 1 .. Len(dct) : dct[i].key = k

\* dct[k] = v: a present key keeps its place, a new key goes last
DictSet(dct, k, v) ==
    IF HasKey(dct, k)
    THEN [i \in 1 .. Len(dct) |-> IF dct[i].key = k THEN Item(k, v) ELSE dct[i]]
    ELSE Append(dct, Item(k, v))

\* dct[k], for a present key
DictAt(dct, k) == dct[CHOOSE i \in 1 .. Len(dct) : dct[i].key = k].val

\* row.get(k): None for an absent key
DictGet(dct, k) == IF HasKey(dct, k) THEN DictAt(dct, k) ELSE NoneVal

-----------------------------------------------------------------------------
(* What the database and the file system may answer *)

\* get_user_tables: ORDER BY RDB$RELATION_NAME, so sorted and without repeats
TableLists == {<<>>, <<"A">>, <<"B">>, <<"A", "B">>}

\* one to two distinct column names, in any order
ColumnOrders == {<<"X">>, <<"Y">>, <<"X", "Y">>, <<"Y", "X">>}

\* the RDB$FIELDS row of a column: X is INTEGER NOT NULL, Y has a field type
\* get_fb_type does not know
FetchedColumn(name) ==
    IF name = "X"
    THEN CatalogRow("X", 8, Some(0), Some(4), Some(0), Some(0), Some(1), None)
    ELSE CatalogRow(name, 9, None, Some(8), None, None, None, None)

FetchedColumns(names) == [i \in 1 .. Len(names) |-> FetchedColumn(names[i])]

\* get_primary_key, get_foreign_keys: A has the primary key X, B references it
PrimaryKeyOf(table) == IF table = "A" THEN <<"X">> ELSE <<>>

ForeignKeysOf(table) ==
    IF table = "B"
    THEN <<[name |-> "FK_B_A", column |-> "X", ref_table |-> "A", ref_column |-> "X"]>>
    ELSE <<>>

GeneratorLists == {<<>>, <<[name |-> "GEN_ACCOUNT_ID", value |-> 42]>>}

\* raw cell values of SELECT *: NULL or a blank-padded empty CHAR
RawValues == {NoneVal, StrVal(<<32>>)}

RECURSIVE Tuples(_, _)
Tuples(S, n) ==
    IF n = 0 THEN {<<>>} ELSE {Append(q, x) : q \in Tuples(S, n - 1), x \in S}

\* cur.fetchall() for a cursor of n columns
Fetches(n) == SeqsUpTo(Tuples(RawValues, n), MaxRows)

-----------------------------------------------------------------------------
(* main *)

NumSearchDirs == 7
NumDlls == 2

Init ==
    /\ pc = "start"
    /\ exitCode = -1
    /\ out = "none"
    /\ conn = "none"
    /\ d = 0
    /\ dll = 0
    /\ tables = <<>>
    /\ ti = 0
    /\ data = <<>>
    /\ col_meta = <<>>
    /\ schema_el = <<>>
    /\ data_el = <<>>
    /\ file = "absent"
    /\ fnIn = [f |-> "none"]
    /\ fnOut = Pending

Exit(code, line) ==
    /\ pc' = "exited"
    /\ exitCode' = code
    /\ out' = line

\* lines 360-386: parse the arguments, check the input, make the output directory
MainStart ==
    /\ pc = "start"
    /\ \/ /\ Exit(2, "usage")
          /\ UNCHANGED <<d, dll>>
       \/ /\ Exit(1, "ERROR: not found")
          /\ UNCHANGED <<d, dll>>
       \/ /\ Exit(1, "Traceback")
          /\ UNCHANGED <<d, dll>>
       \/ /\ pc' = "connect"
          /\ out' = "Connecting..."
          /\ d' = 1
          /\ dll' = 1
          /\ UNCHANGED exitCode
    /\ UNCHANGED <<conn, tables, ti, data, col_meta, schema_el, data_el, file, fnIn, fnOut>>

\* the candidate after (d, dll): the other dll of the directory, then the next directory
NextCandidate ==
    IF dll < NumDlls THEN d' = d /\ dll' = dll + 1 ELSE d' = d + 1 /\ dll' = 1

\* the search given up at the first failed attempt
ConnectStep_stop_on_failure ==
    /\ pc = "connect"
    /\ d <= NumSearchDirs
    /\ \/ /\ dll = 1
          /\ d' = d + 1
          /\ dll' = 1
          /\ UNCHANGED <<pc, out, conn, exitCode>>
       \/ /\ NextCandidate
          /\ UNCHANGED <<pc, out, conn, exitCode>>
       \/ /\ pc' = "exited"
          /\ exitCode' = 1
          /\ out' = "ERROR: No fbembed.dll / fbclient.dll found."
          /\ UNCHANGED <<d, dll, conn>>
       \/ /\ conn' = "open"
          /\ pc' = "read_all_tables"
          /\ out' = "Connected."
          /\ d' = 0
          /\ dll' = 0
          /\ UNCHANGED exitCode
    /\ UNCHANGED <<tables, ti, data, col_meta, schema_el, data_el, file, fnIn, fnOut>>

\* lines 218-233: one step of the search for a client library
ConnectStep ==
    /\ pc = "connect"
    /\ d <= NumSearchDirs
    /\ \/ /\ dll = 1             \* not d or not os.path.isdir(d): continue
          /\ d' = d + 1
          /\ dll' = 1
          /\ UNCHANGED <<pc, out, conn>>
       \/ /\ NextCandidate       \* not os.path.exists(path)
          /\ UNCHANGED <<pc, out, conn>>
       \/ /\ NextCandidate       \* fdb.connect raised: print Failed, go on
          /\ out' = "Failed"
          /\ UNCHANGED <<pc, conn>>
       \/ /\ conn' = "open"      \* fdb.connect returned: return it to main
          /\ pc' = "read_all_tables"
          /\ out' = "Connected."
          /\ d' = 0
          /\ dll' = 0
    /\ UNCHANGED <<exitCode, tables, ti, data, col_meta, schema_el, data_el, file,
                   fnIn, fnOut>>

\* lines 235-237: no candidate gave a connection
ConnectExhausted ==
    /\ pc = "connect"
    /\ d > NumSearchDirs
    /\ Exit(1, "ERROR: No fbembed.dll / fbclient.dll found.")
    /\ UNCHANGED <<conn, d, dll, tables, ti, data, col_meta, schema_el, data_el, file,
                   fnIn, fnOut>>

\* lines 245-248
GetUserTables ==
    /\ pc = "read_all_tables"
    /\ tables' \in TableLists
    /\ data' = <<>>
    /\ ti' = 1
    /\ pc' = "read_table"
    /\ out' = "tables"
    /\ UNCHANGED <<exitCode, conn, d, dll, col_meta, schema_el, data_el, file, fnIn, fnOut>>

\* lines 255-261: the row dict of one fetched tuple; str values are rstripped
RowDict(col_names, raw) ==
    LET Put(dct, i) ==
            DictSet(dct, col_names[i],
                    IF raw[i].k = "str" THEN StrVal(rstrip(raw[i].v)) ELSE raw[i])
        RECURSIVE Build(_, _)
        Build(dct, i) == IF i > Len(col_names) THEN dct ELSE Build(Put(dct, i), i + 1)
    IN  Build(<<>>, 1)

\* lines 249-264: the body of the loop over tables
ReadTable ==
    /\ pc = "read_table"
    /\ ti <= Len(tables)
    /\ \E col_names \in ColumnOrders :
           \E fetched \in Fetches(Len(col_names)) :
               data' = DictSet(data, tables[ti],
                               [j \in 1 .. Len(fetched) |-> RowDict(col_names, fetched[j])])
    /\ ti' = ti + 1
    /\ out' = "rows"
    /\ UNCHANGED <<pc, exitCode, conn, d, dll, tables, col_meta, schema_el, data_el, file,
                   fnIn, fnOut>>

\* the loop over tables left one table early
ReadAllReturn_early ==
    /\ pc = "read_table"
    /\ ti >= Len(tables)
    /\ pc' = "col_meta"
    /\ ti' = 1
    /\ col_meta' = <<>>
    /\ out' = "Generating XML..."
    /\ UNCHANGED <<exitCode, conn, d, dll, tables, data, schema_el, data_el, file,
                   fnIn, fnOut>>

\* line 266 and lines 392-299: read_all_tables returns, generate_xml starts
ReadAllReturn ==
    /\ pc = "read_table"
    /\ ti > Len(tables)
    /\ pc' = "col_meta"
    /\ ti' = 1
    /\ col_meta' = <<>>
    /\ out' = "Generating XML..."
    /\ UNCHANGED <<exitCode, conn, d, dll, tables, data, schema_el, data_el, file,
                   fnIn, fnOut>>

\* lines 300-301: the body of the loop that fills col_meta
GetTableColumns ==
    /\ pc = "col_meta"
    /\ ti <= Len(data)
    /\ \E names \in ColumnOrders :
           col_meta' = DictSet(col_meta, data[ti].key,
                               get_table_columns(FetchedColumns(names)))
    /\ ti' = ti + 1
    /\ UNCHANGED <<pc, exitCode, out, conn, d, dll, tables, data, schema_el, data_el, file,
                   fnIn, fnOut>>

\* lines 303-312: the root, the schema element and the generators
StartSchema ==
    /\ pc = "col_meta"
    /\ ti > Len(data)
    /\ \E generators \in GeneratorLists :
           schema_el' =
               IF generators # <<>>
               THEN <<[tag |-> "generators",
                       children |-> [i \in 1 .. Len(generators) |->
                                        [name |-> generators[i].name,
                                         value |-> ToString(generators[i].value)]]]>>
               ELSE <<>>
    /\ pc' = "schema_table"
    /\ ti' = 1
    /\ UNCHANGED <<exitCode, out, conn, d, dll, tables, data, col_meta, data_el, file,
                   fnIn, fnOut>>

InSeq(x, q) == \E i \in 1 .. Len(q) : q[i] = x

\* lines 319-333: the <table> element of the schema section
schema_table(table_name, columns, pk_cols, fks) ==
    [tag |-> "table",
     name |-> table_name,
     columns |-> [i \in 1 .. Len(columns) |->
                     [name |-> columns[i].name,
                      type |-> columns[i].fb_type,
                      notnull |-> columns[i].not_null,
                      pk |-> InSeq(columns[i].name, pk_cols)]],
     fks |-> [i \in 1 .. Len(fks) |->
                 [name |-> fks[i].name,
                  column |-> fks[i].column,
                  references |-> fks[i].ref_table \o "(" \o fks[i].ref_column \o ")"]]]

\* lines 314-333: the body of the loop over data that builds the schema section
SchemaTable ==
    /\ pc = "schema_table"
    /\ ti <= Len(data)
    /\ schema_el' = Append(schema_el,
                           schema_table(data[ti].key, DictAt(col_meta, data[ti].key),
                                        PrimaryKeyOf(data[ti].key),
                                        ForeignKeysOf(data[ti].key)))
    /\ ti' = ti + 1
    /\ UNCHANGED <<pc, exitCode, out, conn, d, dll, tables, data, col_meta, data_el, file,
                   fnIn, fnOut>>

\* line 336
StartData ==
    /\ pc = "schema_table"
    /\ ti > Len(data)
    /\ data_el' = <<>>
    /\ pc' = "data_table"
    /\ ti' = 1
    /\ UNCHANGED <<exitCode, out, conn, d, dll, tables, data, col_meta, schema_el, file,
                   fnIn, fnOut>>

\* the row emitted in the order of the row dict's own keys
row_element_by_keys(columns, row) ==
    LET TypeOf(name) ==
            IF \E i \in 1 .. Len(columns) : columns[i].name = name
            THEN columns[CHOOSE i \in 1 .. Len(columns) : columns[i].name = name].fb_type
            ELSE ""
        RECURSIVE Cols(_, _)
        Cols(row_el, i) ==
            IF i > Len(row) THEN row_el
            ELSE Cols(xml_col(row_el, row[i].key, TypeOf(row[i].key), row[i].val), i + 1)
    IN  Cols(<<>>, 1)

\* lines 342-344: the <row> element of one row
row_element(columns, row) ==
    LET RECURSIVE Cols(_, _)
        Cols(row_el, i) ==
            IF i > Len(columns) THEN row_el
            ELSE Cols(xml_col(row_el, columns[i].name, columns[i].fb_type,
                              DictGet(row, columns[i].name)), i + 1)
    IN  Cols(<<>>, 1)

\* lines 339-344: the <table> element of the data section
data_table(table_name, columns, rows) ==
    [name |-> table_name,
     count |-> ToString(Len(rows)),
     rows |-> [j \in 1 .. Len(rows) |-> row_element(columns, rows[j])]]

\* the loop body with tables of no rows left out of the data section
DataTable_skip_empty ==
    /\ pc = "data_table"
    /\ ti <= Len(data)
    /\ data_el' = IF data[ti].val = <<>> THEN data_el
                  ELSE Append(data_el,
                              data_table(data[ti].key, DictAt(col_meta, data[ti].key),
                                         data[ti].val))
    /\ ti' = ti + 1
    /\ UNCHANGED <<pc, exitCode, out, conn, d, dll, tables, data, col_meta, schema_el, file,
                   fnIn, fnOut>>

\* lines 338-344: the body of the loop over data.items()
DataTable ==
    /\ pc = "data_table"
    /\ ti <= Len(data)
    /\ data_el' = Append(data_el,
                         data_table(data[ti].key, DictAt(col_meta, data[ti].key),
                                    data[ti].val))
    /\ ti' = ti + 1
    /\ UNCHANGED <<pc, exitCode, out, conn, d, dll, tables, data, col_meta, schema_el, file,
                   fnIn, fnOut>>

\* lines 346-352: indent, open the output file, write the tree, report
WriteFile ==
    /\ pc = "data_table"
    /\ ti > Len(data)
    /\ \/ /\ file' = "complete"
          /\ pc' = "close"
          /\ out' = "elements"
          /\ UNCHANGED exitCode
       \/ /\ file' \in {"absent", "partial"}     \* open or write raised
          /\ Exit(1, "Traceback")
    /\ UNCHANGED <<conn, d, dll, tables, ti, data, col_meta, schema_el, data_el,
                   fnIn, fnOut>>

\* lines 398-402: close the session, report, fall off the end of main
CloseAndFinish ==
    /\ pc = "close"
    /\ conn' = "closed"
    /\ pc' = "done"
    /\ exitCode' = 0
    /\ out' = "Done!"
    /\ UNCHANGED <<d, dll, tables, ti, data, col_meta, schema_el, data_el, file,
                   fnIn, fnOut>>

\* A catalog query or a row read raises.  main has no try / except / finally
\* (lines 386-398): the exception ends the process with a traceback and exit
\* status 1, and line 398 is never reached.
QueryRaises ==
    /\ \/ pc = "read_all_tables"                      \* get_user_tables
       \/ pc = "read_table" /\ ti <= Len(tables)      \* SELECT * FROM table
       \/ pc = "col_meta"                             \* get_table_columns, get_generators
       \/ pc = "schema_table" /\ ti <= Len(data)      \* get_primary_key, get_foreign_keys
    /\ Exit(1, "Traceback")
    /\ UNCHANGED <<conn, d, dll, tables, ti, data, col_meta, schema_el, data_el, file,
                   fnIn, fnOut>>

Next ==
    \/ MainStart
    \/ ConnectStep
    \/ ConnectExhausted
    \/ GetUserTables
    \/ ReadTable
    \/ ReadAllReturn
    \/ GetTableColumns
    \/ StartSchema
    \/ SchemaTable
    \/ StartData
    \/ DataTable
    \/ WriteFile
    \/ CloseAndFinish
    \/ QueryRaises

Spec == Init /\ [][Next]_vars

-----------------------------------------------------------------------------
(* Properties of a run of main *)

SchemaTables == SelectSeq(schema_el, LAMBDA e : e.tag = "table")

Names(q) == [i \in 1 .. Len(q) |-> q[i].name]

\* C1: in every row of every table of the data section, the col names are the
\* column names of that table's schema block, same order, same length,
\* whatever the keys of the row dict are.
C1_ColumnOrder ==
    \A t \in 1 .. Len(data_el) :
        /\ \E s \in 1 .. Len(SchemaTables) : SchemaTables[s].name = data_el[t].name
        /\ \A s \in 1 .. Len(SchemaTables) :
               SchemaTables[s].name = data_el[t].name =>
                   \A r \in 1 .. Len(data_el[t].rows) :
                       Names(data_el[t].rows[r]) = Names(SchemaTables[s].columns)

\* table A read with the keys Y, X and table B with the key Y alone, both
\* with the catalog columns X, Y
C1_Witness ==
    /\ file = "complete"
    /\ Len(data) = 2
    /\ Len(data[1].val) = 1 /\ Keys(data[1].val[1]) = <<"Y", "X">>
    /\ Len(data[2].val) = 1 /\ Keys(data[2].val[1]) = <<"Y">>
    /\ Names(SchemaTables[1].columns) = <<"X", "Y">>
    /\ Names(SchemaTables[2].columns) = <<"X", "Y">>
    /\ Names(data_el[1].rows[1]) = <<"X", "Y">>
    /\ Names(data_el[2].rows[1]) = <<"X", "Y">>
    /\ data_el[2].rows[1][1].null

\* C2: in a written document the table names under schema and under data are
\* both the sequence get_user_tables returned: every table once, in that
\* order, tables without rows included.
C2_TableOrder ==
    file = "complete" =>
        /\ Names(SchemaTables) = tables
        /\ Names(data_el) = tables
        /\ \A i \in 1 .. Len(data_el) : data_el[i].count = ToString(Len(data[i].val))

C2_Witness ==
    /\ file = "complete"
    /\ tables = <<"A", "B">>
    /\ data_el[1].count = "0"
    /\ data_el[2].count = "1"
    /\ Names(SchemaTables) = <<"A", "B">>

\* C3: once connect_embedded has returned a session, the process does not
\* end with the session still open.
C3_SessionClosedAtExit ==
    pc \in {"exited", "done"} /\ conn # "none" => conn = "closed"

\* C4: for every table, its column descriptors are read from the catalog
\* before its rows are read.
C4_ColumnsBeforeRows ==
    \A i \in 1 .. Len(data) : HasKey(col_meta, data[i].key)

AssemblyStarted == pc \in {"schema_table", "data_table", "close", "done"}

\* C4 as the script runs: connect, enumerate the tables, read the rows of every
\* table in that order, only then read the column descriptors of every table,
\* then assemble, write, close; no rows and no column descriptors are read
\* once assembly has started.
C4_RowsThenColumns ==
    /\ [](/\ conn = "none" => tables = <<>> /\ data = <<>> /\ col_meta = <<>>
          /\ pc = "read_table" => Keys(data) = SubSeq(tables, 1, ti - 1) /\ col_meta = <<>>
          /\ col_meta # <<>> => Keys(data) = tables
          /\ pc = "col_meta" => Keys(col_meta) = SubSeq(tables, 1, ti - 1)
          /\ AssemblyStarted => Keys(data) = tables /\ Keys(col_meta) = tables
          /\ file # "absent" => Names(data_el) = tables
          /\ conn = "closed" => file = "complete")
    /\ [][AssemblyStarted => data' = data /\ col_meta' = col_meta /\ tables' = tables]_vars

C4_Witness ==
    /\ pc = "col_meta"
    /\ tables = <<"A", "B">>
    /\ Keys(data) = <<"A", "B">>
    /\ Keys(col_meta) = <<"A">>

\* C9: a col has null="true" exactly when the row has no key for the column
\* or the value is None; such a col has no text, and any other value, the
\* empty string included, gives a col with text and without the marker.
C9_NullIffNone ==
    \A t \in 1 .. Len(data_el) :
        \A r \in 1 .. Len(data_el[t].rows) :
            \A c \in 1 .. Len(data_el[t].rows[r]) :
                LET e == data_el[t].rows[r][c]
                    row == data[t].val[r]
                    isNull == ~HasKey(row, e.name) \/ DictAt(row, e.name).k = "none"
                IN  /\ e.null <=> isNull
                    /\ e.null => ~e.hasText
                    /\ ~e.null => e.hasText

\* a row with the key Y alone, holding the empty string: X is null, Y is not
C9_Witness ==
    /\ Len(data_el) = 1
    /\ Len(data[1].val) = 1
    /\ Keys(data[1].val[1]) = <<"Y">>
    /\ data[1].val[1][1].val = StrVal(<<>>)
    /\ Names(data_el[1].rows[1]) = <<"X", "Y">>
    /\ data_el[1].rows[1][1].null /\ ~data_el[1].rows[1][1].hasText
    /\ ~data_el[1].rows[1][2].null /\ data_el[1].rows[1][2].hasText
    /\ data_el[1].rows[1][2].text = <<>>

ExitLines == {"ERROR: not found", "ERROR: No fbembed.dll / fbclient.dll found."}

\* C10: the exit status is 1 exactly when the input is missing or no candidate
\* library gave a connection, and then no table was read and no output written.
C10_ExitOneOnlyBeforeReading ==
    /\ exitCode = 1 <=> out \in ExitLines
    /\ exitCode = 1 => conn = "none" /\ data = <<>> /\ file = "absent"

\* the place of a candidate in the search order
Place(dir, lib) == dir * NumDlls + lib

\* C10 for the two sys.exit(1) calls of the script: they are reached exactly
\* when the input is missing or the search has passed every candidate, and
\* then no session was opened, no table read and no output written; exit
\* status 1 otherwise only comes with a traceback.  The search goes through
\* the candidates in order, goes on after a failed attempt, and ends with the
\* first connection.
C10_ExitCallsAndSearch ==
    /\ [](/\ out \in ExitLines =>
                 /\ exitCode = 1 /\ pc = "exited"
                 /\ conn = "none" /\ tables = <<>> /\ data = <<>> /\ file = "absent"
          /\ exitCode = 1 => out \in ExitLines \cup {"Traceback"}
          /\ out = "ERROR: No fbembed.dll / fbclient.dll found." => d > NumSearchDirs
          /\ pc = "connect" => conn = "none"
          /\ conn # "none" => d = 0 /\ dll = 0)
    /\ [][pc = "connect" =>
              /\ pc' = "connect" /\ <<d', dll'>> # <<d, dll>> =>
                     Place(d', dll') > Place(d, dll) /\ conn' = "none"
              /\ out' = "Failed" => pc' = "connect"
              /\ conn' = "open" => pc' = "read_all_tables"]_vars

C10_Witness ==
    /\ pc = "exited"
    /\ exitCode = 1
    /\ out = "ERROR: No fbembed.dll / fbclient.dll found."
    /\ d = NumSearchDirs + 1

====
